---------------------------- MODULE Spec2Model ----------------------------
(*
  RBC_notebook: an XML-RPC note store (notebook_server.py) and a client
  that calls a pool of such servers round-robin with failover
  (notebook_client.py).

  Strings are sequences of one-character strings, so that the code's string
  tests (a quote inside an XPath predicate, an empty element text) are
  computed.  Python values that cross the RPC boundary are tagged records.
*)
EXTENDS Integers, Sequences, FiniteSets, TLC

\* ------------------------------------------------------------------ bounds
MaxPool == 2      \* the pool holds 1..MaxPool endpoints
MaxNotes == 1     \* the client adds notes while the stores hold fewer
MaxClock == 1     \* the servers' clock reads 0..MaxClock
MaxThreads == 2   \* threads calling one server's functions at once
MaxOps == 3       \* calls those threads make in all

\* --------------------------------------------------------- python values
PyNone == [t |-> "None"]
PyStr(s) == [t |-> "str", v |-> s]
PyBool(b) == [t |-> "bool", v |-> b]
PyList(l) == [t |-> "list", v |-> l]
Fault(name) == [t |-> "Fault", v |-> name]

\* Python's truth value of a result: None, False, '' and [] are false.
Falsy(x) ==
    CASE x.t = "None" -> TRUE
      [] x.t = "bool" -> ~x.v
      [] x.t = "str"  -> x.v = <<>>
      [] x.t = "list" -> x.v = <<>>
      [] OTHER        -> FALSE

\* Python's == between two results (values of different types differ).
PyEq(x, y) == x.t = y.t /\ x = y

\* ----------------------------------------------------------------- inputs
QUOTE == "'"
\* A topic with a quote, and one that closes the XPath predicate it is put
\* into and opens another: a'][@name='a
QuoteTopic == <<"q", QUOTE>>
PathTopic == <<"a", QUOTE, "]", "[", "@", "n", "a", "m", "e", "=", QUOTE, "a">>
\* The topics typed at the client's prompts, and the topics of the calls
\* made on a server's functions.
MenuTopics == {<<"a">>, <<"b">>, QuoteTopic}
Topics == MenuTopics \cup {PathTopic}
Texts == {<<>>, <<"h">>}
Digits == <<"0", "1", "2", "3", "4", "5", "6", "7", "8", "9">>

\* datetime.utcnow().strftime(...): the clock reading as text.
Strftime(n) == <<"T", Digits[n + 1]>>

\* ------------------------------------------------------- the XML document
(* A file is missing or holds a document: the root's topic elements in
   document order, each with its name attribute and its note elements; a
   note has its name attribute (label) and the character data of its <text>
   and <timestamp> children (<<>> for an element written as <text />). *)
LABEL_LEN == 30
Missing == [k |-> "missing"]
\* A file opened for writing and not yet written: no document to parse.
Truncated == [k |-> "partial"]
XmlFile(root) == [k |-> "xml", root |-> root]

Take(s, n) == IF Len(s) <= n THEN s ELSE SubSeq(s, 1, n)

\* ElementTree's parse of one element's character data: none gives None.
ETParseText(cdata) == IF cdata = <<>> THEN PyNone ELSE PyStr(cdata)

\* ElementTree's serialisation of .text: None and '' both write no data.
ETWriteText(text) == IF text.t = "str" THEN text.v ELSE <<>>

ETParseNote(x) ==
    [label |-> x.label, text |-> ETParseText(x.text),
     timestamp |-> ETParseText(x.timestamp)]

ETWriteNote(n) ==
    [label |-> n.label, text |-> ETWriteText(n.text),
     timestamp |-> ETWriteText(n.timestamp)]

\* ET.parse(DB_PATH).getroot(): the in-memory tree of a document.
ETParse(file) ==
    [i \in 1..Len(file.root) |->
        [name |-> file.root[i].name,
         notes |-> [j \in 1..Len(file.root[i].notes) |->
                        ETParseNote(file.root[i].notes[j])]]]

\* tree.write(DB_PATH): the document a tree is written as.
ETWrite(tree) ==
    XmlFile([i \in 1..Len(tree) |->
        [name |-> tree[i].name,
         notes |-> [j \in 1..Len(tree[i].notes) |->
                        ETWriteNote(tree[i].notes[j])]]])

EmptyDoc == XmlFile(<<>>)

\* _load_tree: a missing file is written as an empty root, then parsed.
LoadFile(file) == IF file = Missing THEN EmptyDoc ELSE file
LoadTree(file) == ETParse(LoadFile(file))

HasQuote(s) == \E i \in 1..Len(s) : s[i] = QUOTE

\* --------------------------------------------------------- ElementPath
(* root.find(f"./topic[@name='{topic}']"), as xml.etree.ElementPath runs
   it: the path is cut into tokens, the tokens are compiled into selectors,
   and the selectors are applied to the root in turn.  Topic names are over
   letters and the characters ' [ ] @ = only: the token forms that need
   another character (digits, blanks, '!', '(', '*', ':', '{', '"', a second
   '/' or '.') are left out. *)
Template ==
    <<".", "/", "t", "o", "p", "i", "c", "[", "@", "n", "a", "m", "e", "=",
      QUOTE>>
XPath(topic) == Template \o topic \o <<QUOTE, "]">>

OpChars == {"/", ".", "[", "]", "@", "="}
NameChar(c) == c \notin {"/", "[", "]", "(", ")", "@", "!", "=", " "}
Least(S) == CHOOSE j \in S : \A k \in S : j <= k

\* A token is (op, tag) in the source; a quoted string is an op there, kept
\* here as op QUOTE with its value.
StrToken(v) == [op |-> QUOTE, tag |-> <<>>, val |-> v]
OpToken(c) == [op |-> c, tag |-> <<>>, val |-> <<>>]
NameToken(n) == [op |-> "", tag |-> n, val |-> <<>>]

\* xpath_tokenizer_re.findall(pattern) from position i: a quoted string
\* when the quote has a closing one, else an operator character, else the
\* longest run of name characters (a quote without a closing one is a name
\* character).
RECURSIVE xpath_tokenizer(_, _)
xpath_tokenizer(s, i) ==
    IF i > Len(s) THEN <<>>
    ELSE LET closing == {j \in (i + 1)..Len(s) : s[j] = QUOTE}
             stop == {j \in i..Len(s) : ~NameChar(s[j])}
             e == IF stop = {} THEN Len(s) ELSE Least(stop) - 1
         IN IF s[i] = QUOTE /\ closing # {}
            THEN <<StrToken(SubSeq(s, i + 1, Least(closing) - 1))>>
                    \o xpath_tokenizer(s, Least(closing) + 1)
            ELSE IF s[i] \in OpChars
            THEN <<OpToken(s[i])>> \o xpath_tokenizer(s, i + 1)
            ELSE IF NameChar(s[i])
            THEN <<NameToken(SubSeq(s, i, e))>> \o xpath_tokenizer(s, e + 1)
            ELSE xpath_tokenizer(s, i + 1)

Raise(exc) == [k |-> "raise", exc |-> exc]

\* prepare_predicate on the tokens between '[' and ']': the signature
\* decides the kind of predicate.
Signature(p) == [i \in 1..Len(p) |-> IF p[i].op = "" THEN "-" ELSE p[i].op]
Operand(tk) == IF tk.op = QUOTE THEN tk.val ELSE tk.tag
prepare_predicate(p) ==
    LET sig == Signature(p)
    IN CASE sig = <<"@", "-">> -> [k |-> "attr", key |-> Operand(p[2])]
         [] sig = <<"@", "-", "=", QUOTE>> ->
                [k |-> "attr_eq", key |-> Operand(p[2]),
                 value |-> Operand(p[4])]
         [] sig = <<"-">> -> [k |-> "has", tag |-> Operand(p[1])]
         [] sig = <<"-", "=", QUOTE>> ->
                [k |-> "text_eq", tag |-> Operand(p[1]),
                 value |-> Operand(p[3])]
         [] OTHER -> Raise("SyntaxError")

\* iterfind's compile loop from token i: one selector per step, a '/'
\* between two steps is skipped.  A token that is no step is a KeyError of
\* ops[..]; a predicate without its ']' gives no selector, which is a
\* TypeError when the selectors are run.  Nothing is compiled after an
\* exception.
RECURSIVE Selectors(_, _)
Selectors(toks, i) ==
    IF i > Len(toks) THEN <<>>
    ELSE LET closing == {j \in (i + 1)..Len(toks) : toks[j].op = "]"}
             j == IF closing = {} THEN Len(toks) ELSE Least(closing)
             sel == CASE toks[i].op = "" -> [k |-> "child", tag |-> toks[i].tag]
                      [] toks[i].op = "." -> [k |-> "self"]
                      [] toks[i].op = "[" ->
                            IF closing = {} THEN Raise("TypeError")
                            ELSE prepare_predicate(SubSeq(toks, i + 1, j - 1))
                      [] OTHER -> Raise("KeyError")
             n == IF toks[i].op = "[" THEN j + 1 ELSE i + 1
             m == IF n <= Len(toks) /\ toks[n].op = "/" THEN n + 1 ELSE n
         IN IF sel.k = "raise" THEN <<sel>> ELSE <<sel>> \o Selectors(toks, m)

Compile(topic) == Selectors(xpath_tokenizer(XPath(topic), 1), 1)
Compiled == [topic \in Topics |-> Compile(topic)]
Selector(topic) ==
    IF topic \in DOMAIN Compiled THEN Compiled[topic] ELSE Compile(topic)

(* An element of a tree is named by its position: <<>> the root <data>,
   <<i>> its i-th <topic>, <<i, j>> that topic's j-th <note>, <<i, j, 1>>
   and <<i, j, 2>> the note's <text> and <timestamp>. *)
Kids(tree, el) ==
    CASE Len(el) = 0 -> [i \in 1..Len(tree) |-> <<i>>]
      [] Len(el) = 1 -> [j \in 1..Len(tree[el[1]].notes) |-> <<el[1], j>>]
      [] Len(el) = 2 -> <<el \o <<1>>, el \o <<2>>>>
      [] OTHER -> <<>>

TagOf(el) ==
    CASE Len(el) = 0 -> <<"d", "a", "t", "a">>
      [] Len(el) = 1 -> <<"t", "o", "p", "i", "c">>
      [] Len(el) = 2 -> <<"n", "o", "t", "e">>
      [] el[3] = 1 -> <<"t", "e", "x", "t">>
      [] OTHER -> <<"t", "i", "m", "e", "s", "t", "a", "m", "p">>

\* elem.get(key): topics and notes carry the one attribute 'name'.
AttrOf(tree, el, key) ==
    IF key # <<"n", "a", "m", "e">> THEN PyNone
    ELSE CASE Len(el) = 1 -> PyStr(tree[el[1]].name)
           [] Len(el) = 2 -> PyStr(tree[el[1]].notes[el[2]].label)
           [] OTHER -> PyNone

\* "".join(e.itertext()) = value for a child e: the text of a <text> or
\* <timestamp>; an element with children holds the line breaks of
\* ET.indent, which no value here has.
TextIs(tree, el, value) ==
    /\ Len(el) = 3
    /\ LET n == tree[el[1]].notes[el[2]]
           t == IF el[3] = 1 THEN n.text ELSE n.timestamp
       IN ETWriteText(t) = value

RECURSIVE Flat(_)
Flat(ss) == IF ss = <<>> THEN <<>> ELSE Head(ss) \o Flat(Tail(ss))

KidsTagged(tree, el, tag) ==
    SelectSeq(Kids(tree, el), LAMBDA k : TagOf(k) = tag)

\* select(context, result) of one selector.
Select(sel, tree, els) ==
    CASE sel.k = "self" -> els
      [] sel.k = "child" ->
            Flat([n \in 1..Len(els) |-> KidsTagged(tree, els[n], sel.tag)])
      [] sel.k = "attr" ->
            SelectSeq(els, LAMBDA el : AttrOf(tree, el, sel.key) # PyNone)
      [] sel.k = "attr_eq" ->
            SelectSeq(els, LAMBDA el :
                PyEq(AttrOf(tree, el, sel.key), PyStr(sel.value)))
      [] sel.k = "has" ->
            SelectSeq(els, LAMBDA el : KidsTagged(tree, el, sel.tag) # <<>>)
      [] sel.k = "text_eq" ->
            SelectSeq(els, LAMBDA el :
                \E n \in 1..Len(KidsTagged(tree, el, sel.tag)) :
                    TextIs(tree, KidsTagged(tree, el, sel.tag)[n], sel.value))
      [] OTHER -> <<>>    \* nothing is selected once find has raised

RECURSIVE iterfind(_, _, _, _)
iterfind(tree, sels, i, els) ==
    IF i > Len(sels) THEN els
    ELSE iterfind(tree, sels, i + 1, Select(sels[i], tree, els))

\* root.find(path) raises: the exception as a fault.
FindErr(topic) ==
    \E i \in 1..Len(Selector(topic)) : Selector(topic)[i].k = "raise"
FindFault(topic) ==
    LET sels == Selector(topic) IN Fault(sels[Len(sels)].exc)

\* root.find(path): the first element selected, as the index of that topic
\* element, 0 for None.  The paths of Topics select topic elements only; a
\* topic that goes on with a child step (a']note[@name='h) selects a note
\* element, which an index of topics does not name.
FindIdx(tree, topic) ==
    LET found == iterfind(tree, Selector(topic), 1, << <<>> >>)
    IN IF found = <<>> THEN 0 ELSE Head(found)[1]

NewNote(text, timestamp) ==
    [label |-> Take(text, LABEL_LEN), text |-> PyStr(text),
     timestamp |-> PyStr(timestamp)]

\* add_note, lines 38-54: locate or create the topic, append the note.
AddToTree(tree, topic, text, timestamp) ==
    LET idx == FindIdx(tree, topic)
        t1 == IF idx = 0 THEN Append(tree, [name |-> topic, notes |-> <<>>])
              ELSE tree
        at == IF idx = 0 THEN Len(t1) ELSE idx
    IN [t1 EXCEPT ![at].notes = Append(@, NewNote(text, timestamp))]

\* get_notes, lines 70-81: [timestamp, text] of each note of the topic; an
\* element without children is false, like None.
NotesOf(tree, topic) ==
    LET idx == FindIdx(tree, topic)
    IN IF idx = 0 THEN PyList(<<>>)
       ELSE IF Len(tree[idx].notes) = 0 THEN PyList(<<>>)
       ELSE PyList([j \in 1..Len(tree[idx].notes) |->
                <<tree[idx].notes[j].timestamp, tree[idx].notes[j].text>>])

\* list_topics, line 102.
TopicNames(tree) == PyList([i \in 1..Len(tree) |-> PyStr(tree[i].name)])

RECURSIVE SumNotes(_, _)
SumNotes(root, i) ==
    IF i = 0 THEN 0 ELSE Len(root[i].notes) + SumNotes(root, i - 1)
NoteCount(file) ==
    IF file = Missing THEN 0 ELSE SumNotes(file.root, Len(file.root))


\* ------------------------------------------------------------- the server
(* One call of a registered function, run to completion on the file named
   by DB_PATH.  The result is the new file and what the call returns: a
   value, or Fault(..) when the function raised (SimpleXMLRPCServer turns an
   exception of a handler into a fault response and goes on serving). *)
Served(file, ret) == [file |-> file, ret |-> ret]

add_note(file, topic, text, timestamp) ==
    IF FindErr(topic) THEN Served(LoadFile(file), FindFault(topic))
    ELSE Served(ETWrite(AddToTree(LoadTree(file), topic, text, timestamp)),
                PyBool(TRUE))

get_notes(file, topic) ==
    IF FindErr(topic) THEN Served(LoadFile(file), FindFault(topic))
    ELSE Served(LoadFile(file), NotesOf(LoadTree(file), topic))

list_topics(file) == Served(LoadFile(file), TopicNames(LoadTree(file)))

\* What the Wikipedia API call gives: an article, no article, a reply that
\* is not the expected JSON, or no connection.
WikiReplies == {"article", "nothing", "malformed", "unreachable"}
WikiUrl == <<"u">>
wiki_lookup(file, reply) ==
    CASE reply = "article" -> Served(file, PyStr(WikiUrl))
      [] reply = "nothing" -> Served(file, PyStr(<<>>))
      [] reply = "malformed" -> Served(file, Fault("JSONDecodeError"))
      [] OTHER -> Served(file, Fault("ConnectionError"))

\* The functions registered at lines 112-113, by name.
Dispatch(method, args, file, clock, reply) ==
    CASE method = "add_note" ->
            add_note(file, args[1], args[2], Strftime(clock))
      [] method = "get_notes" -> get_notes(file, args[1])
      [] method = "list_topics" -> list_topics(file)
      [] OTHER -> wiki_lookup(file, reply)

\* -------------------------------------------------------------- variables
VARIABLES
    ports,          \* the pool: the ports of the server instances
    cwd,            \* per server: the directory it was started in
    server_cycle,   \* index in ports of what next(server_cycle) yields
    files,          \* per directory: its file notes.xml
    now,            \* the clock
    pc,             \* the client's position
    call,           \* the perform_rpc call in progress
    tries,          \* iterations of its loop so far
    log,            \* its attempts so far: [url, ok, why]
    printed,        \* what it printed so far
    result,         \* what it returned
    start,          \* server_cycle when it was entered
    prev,           \* the call before it: [start, first], first = its first
                    \* attempt succeeded
    shown,          \* what the menu loop printed last
    LOCK,           \* the thread inside "with LOCK", 0 when free
    th,             \* per thread: the call it runs and where it is in it
    ops,            \* calls made on the server's functions so far
    listening,      \* serve_forever is running
    added,          \* add_note calls that returned True
    faults,         \* calls that ended in a fault
    ledger,         \* the notes written, in the order of their writes
    stable          \* the last document written out completely

clientVars == <<ports, cwd, server_cycle, pc, call, tries, log, printed, result,
                start, prev, shown>>
storeVars == <<LOCK, th, ops, listening, added, faults, ledger, stable>>
vars == <<ports, cwd, server_cycle, files, now, pc, call, tries, log, printed,
          result, start, prev, shown, LOCK, th, ops, listening, added,
          faults, ledger, stable>>

Threads == 1..MaxThreads
Idle == [pc |-> "idle", op |-> "", topic |-> <<>>, text |-> <<>>,
         ts |-> <<>>, tree |-> <<>>, ret |-> PyNone, late |-> FALSE]

StoreIdle ==
    /\ LOCK = 0
    /\ th = [t \in Threads |-> Idle]
    /\ ops = 0
    /\ listening = TRUE
    /\ added = 0
    /\ faults = 0
    /\ ledger = <<>>
    /\ stable = Missing

Port(i) == 7999 + i
PoolOf(n) == [i \in 1..n |-> Port(i)]
Urls == {ports[i] : i \in 1..Len(ports)}
NoCall == [method |-> "", args |-> <<>>, ret |-> "menu"]
NoPrev == [start |-> 0, first |-> FALSE]

\* Line 9: DB_PATH is the relative name 'notes.xml', which the server on
\* port u resolves in the directory it was started in.
PathOf(u) == cwd[u]
Dirs == {cwd[u] : u \in Urls}

\* Every server is started in a directory of its own.
OwnDirs == [u \in Urls |-> u]

\* All servers are started in one directory.
OneDir == [u \in Urls |-> Port(1)]

Init ==
    /\ ports \in {PoolOf(n) : n \in 1..MaxPool}
    /\ cwd \in {OwnDirs, OneDir}
    /\ server_cycle = 1
    /\ files = [d \in Dirs |-> Missing]
    /\ now = 0
    /\ pc = "menu"
    /\ call = NoCall
    /\ tries = 0
    /\ log = <<>>
    /\ printed = <<>>
    /\ result = PyNone
    /\ start = 0
    /\ prev = NoPrev
    /\ shown = <<>>
    /\ StoreIdle

\* ------------------------------------------------------------ perform_rpc
\* next(server_cycle) on itertools.cycle(server_urls).
NextInCycle(c) == (c % Len(ports)) + 1

\* LoopBound gone wrong: the loop runs one iteration short.
LoopBoundShort == Len(ports) - 1

\* Line 26: range(len(server_urls)).
LoopBound == Len(ports)

Attempted(url, ok, why) == [url |-> url, ok |-> ok, why |-> why]
Succeeded(l) == l # <<>> /\ l[Len(l)].ok

\* StartCall gone wrong: the cycle is created anew by every call.
StartCallReset(method, args, ret) ==
    /\ call' = [method |-> method, args |-> args, ret |-> ret]
    /\ tries' = 0
    /\ prev' = [start |-> start, first |-> Len(log) = 1 /\ Succeeded(log)]
    /\ start' = 1
    /\ log' = <<>>
    /\ printed' = <<>>
    /\ result' = PyNone
    /\ pc' = "rpc"
    /\ server_cycle' = 1

\* Entering perform_rpc(method, *args); ret is where the menu loop goes on.
StartCall(method, args, ret) ==
    /\ call' = [method |-> method, args |-> args, ret |-> ret]
    /\ tries' = 0
    /\ prev' = [start |-> start, first |-> Len(log) = 1 /\ Succeeded(log)]
    /\ start' = server_cycle
    /\ log' = <<>>
    /\ printed' = <<>>
    /\ result' = PyNone
    /\ pc' = "rpc"
    /\ UNCHANGED server_cycle

\* Failed gone wrong: the except block returns instead of going on.
FailedAborts(url, why) ==
    /\ log' = Append(log, Attempted(url, FALSE, why))
    /\ printed' = Append(printed, <<"Error contacting server", url>>)
    /\ result' = PyNone
    /\ pc' = call.ret

\* Lines 35-37: the exception is printed and the loop goes on.
Failed(url, why) ==
    /\ log' = Append(log, Attempted(url, FALSE, why))
    /\ printed' = Append(printed, <<"Error contacting server", url>>)
    /\ UNCHANGED <<pc, result>>

\* Returned gone wrong: the result is kept and the loop goes on.
ReturnedGoesOn(url, val) ==
    /\ log' = Append(log, Attempted(url, TRUE, "result"))
    /\ result' = val
    /\ UNCHANGED <<pc, printed>>

\* Line 34: return result.
Returned(url, val) ==
    /\ log' = Append(log, Attempted(url, TRUE, "result"))
    /\ result' = val
    /\ pc' = call.ret
    /\ UNCHANGED printed

\* The notes of all files, and the bound on the notes the client adds.
RECURSIVE NotesIn(_, _)
NotesIn(fs, us) ==
    IF us = {} THEN 0
    ELSE LET u == CHOOSE x \in us : TRUE
         IN NoteCount(fs[u]) + NotesIn(fs, us \ {u})
Room == NotesIn(files, DOMAIN files) < MaxNotes

\* One iteration whose connection fails (refused, reset).
AttemptRefused ==
    /\ pc = "rpc" /\ tries < LoopBound
    /\ server_cycle' = NextInCycle(server_cycle)
    /\ tries' = tries + 1
    /\ Failed(ports[server_cycle], "transport")
    /\ UNCHANGED <<ports, cwd, files, now, call, start, prev, shown>>
    /\ UNCHANGED storeVars

\* One iteration whose server runs the function: a value returns from
\* perform_rpc, a fault is one more failure.
AttemptServed ==
    /\ pc = "rpc" /\ tries < LoopBound
    /\ server_cycle' = NextInCycle(server_cycle)
    /\ tries' = tries + 1
    /\ \E reply \in WikiReplies :
        LET url == ports[server_cycle]
            r == Dispatch(call.method, call.args, files[PathOf(url)], now,
                          reply)
        IN /\ files' = [files EXCEPT ![PathOf(url)] = r.file]
           /\ IF r.ret.t = "Fault" THEN Failed(url, "fault")
              ELSE Returned(url, r.ret)
    /\ UNCHANGED <<ports, cwd, now, call, start, prev, shown>>
    /\ UNCHANGED storeVars

\* One iteration whose server runs the function and whose reply does not
\* reach the client (the connection breaks, the server is stopped after the
\* call): the call at line 33 raises.  The log keeps "lost" where the
\* function had returned a value.
AttemptLost ==
    /\ pc = "rpc" /\ tries < LoopBound
    /\ call.method = "add_note" => Room
    /\ server_cycle' = NextInCycle(server_cycle)
    /\ tries' = tries + 1
    /\ \E reply \in WikiReplies :
        LET url == ports[server_cycle]
            r == Dispatch(call.method, call.args, files[PathOf(url)], now,
                          reply)
        IN /\ files' = [files EXCEPT ![PathOf(url)] = r.file]
           /\ Failed(url, IF r.ret.t = "Fault" THEN "transport" ELSE "lost")
    /\ UNCHANGED <<ports, cwd, now, call, start, prev, shown>>
    /\ UNCHANGED storeVars

\* One iteration whose server never answers: ServerProxy(url) sets no
\* timeout, the call at line 33 does not return.
AttemptHang ==
    /\ pc = "rpc" /\ tries < LoopBound
    /\ server_cycle' = NextInCycle(server_cycle)
    /\ tries' = tries + 1
    /\ pc' = "blocked"
    /\ UNCHANGED <<ports, cwd, files, now, call, log, printed, result, start,
                   prev, shown>>
    /\ UNCHANGED storeVars

\* Lines 38-40: the loop ended without a return.
AllFailed ==
    /\ pc = "rpc" /\ tries = LoopBound
    /\ printed' = Append(printed, <<"All servers failed.">>)
    /\ result' = PyNone
    /\ pc' = call.ret
    /\ UNCHANGED <<ports, cwd, server_cycle, files, now, call, tries, log, start,
                   prev, shown>>
    /\ UNCHANGED storeVars

\* A second passes on the servers' clock.
Tick ==
    /\ now < MaxClock
    /\ now' = now + 1
    /\ UNCHANGED clientVars
    /\ UNCHANGED <<files, storeVars>>

\* -------------------------------------------------------------- menu loop
unchangedByMenu == <<ports, cwd, files, now, storeVars>>
sameCall == <<server_cycle, call, tries, log, printed, result, start, prev>>

\* choice '1'
ChooseAdd(topic, text) ==
    /\ pc = "menu" /\ Room
    /\ StartCall("add_note", <<topic, text>>, "c1")
    /\ shown' = <<>>
    /\ UNCHANGED unchangedByMenu

AfterAdd ==
    /\ pc = "c1"
    /\ shown' = <<"Success?">>
    /\ pc' = "menu"
    /\ UNCHANGED sameCall
    /\ UNCHANGED unchangedByMenu

\* choice '2'
ChooseFetch(topic) ==
    /\ pc = "menu"
    /\ StartCall("get_notes", <<topic>>, "c2")
    /\ shown' = <<>>
    /\ UNCHANGED unchangedByMenu

\* Lines 65-77: "if not notes" takes None and [] alike.
AfterFetch ==
    /\ pc = "c2"
    /\ IF Falsy(result)
       THEN /\ shown' = <<"No notes found">>
            /\ StartCall("list_topics", <<>>, "c2t")
       ELSE /\ shown' = <<"notes">>
            /\ pc' = "menu"
            /\ UNCHANGED sameCall
    /\ UNCHANGED unchangedByMenu

AfterTopics ==
    /\ pc = "c2t"
    /\ shown' = IF Falsy(result) THEN <<"There are currently no topics.">>
                ELSE <<"Available topics">>
    /\ pc' = "menu"
    /\ UNCHANGED sameCall
    /\ UNCHANGED unchangedByMenu

\* choice '3'
ChooseWiki(topic) ==
    /\ pc = "menu"
    /\ StartCall("wiki_lookup", <<topic>>, "c3")
    /\ shown' = <<>>
    /\ UNCHANGED unchangedByMenu

WikiNote(link) == <<"W">> \o link

\* Lines 84-95; answer is the reply to "Append to a notebook topic?".
AfterWiki(answer, notebook) ==
    /\ pc = "c3"
    /\ IF Falsy(result)
       THEN /\ shown' = <<"No article found.">>
            /\ pc' = "menu"
            /\ UNCHANGED sameCall
       ELSE /\ shown' = <<"Found">>
            /\ IF answer = "y" /\ Room
               THEN StartCall("add_note", <<notebook, WikiNote(result.v)>>,
                              "c3a")
               ELSE /\ pc' = "menu"
                    /\ UNCHANGED sameCall
    /\ UNCHANGED unchangedByMenu

AfterWikiAdd ==
    /\ pc = "c3a"
    /\ shown' = <<"Success">>
    /\ pc' = "menu"
    /\ UNCHANGED sameCall
    /\ UNCHANGED unchangedByMenu

Next ==
    \/ AttemptRefused
    \/ AttemptServed
    \/ AttemptHang
    \/ AllFailed
    \/ \E topic \in MenuTopics, text \in Texts : ChooseAdd(topic, text)
    \/ AfterAdd
    \/ \E topic \in MenuTopics : ChooseFetch(topic)
    \/ AfterFetch
    \/ AfterTopics
    \/ \E topic \in MenuTopics : ChooseWiki(topic)
    \/ \E answer \in {"y", "n"}, notebook \in MenuTopics :
            AfterWiki(answer, notebook)
    \/ AfterWikiAdd

Spec == Init /\ [][Next]_vars

LiveSpec == Init /\ [][Next]_vars /\ WF_vars(Next)

\* The same with replies that can be lost.
LossNext ==
    \/ Next
    \/ AttemptLost

LossSpec == Init /\ [][LossNext]_vars

\* ------------------------------------------------- the store, by thread
(* The registered functions as threads of one server process run them on
   that server's notes.xml.  A step is what a thread does between two
   accesses to what the threads share: the lock, the file, the clock.  The
   server of the source handles one request at a time; threads calling the
   functions at once are what LOCK is there for. *)
DB_PATH == PathOf(ports[1])
Store == files[DB_PATH]

\* The calls of add_note made: (topic, text, timestamp argument), <<>> for
\* no timestamp argument.
AddInputs == {<< <<"a">>, <<"h">>, <<>> >>,
              << <<"b">>, <<>>, <<"X">> >>,
              << QuoteTopic, <<"h">>, <<>> >>,
              << PathTopic, <<"h">>, <<>> >>}

StoreInit ==
    /\ ports = PoolOf(1)
    /\ cwd = OwnDirs
    /\ server_cycle = 1
    /\ files = [d \in Dirs |-> Missing]
    /\ now = 0
    /\ pc = "menu"
    /\ call = NoCall
    /\ tries = 0
    /\ log = <<>>
    /\ printed = <<>>
    /\ result = PyNone
    /\ start = 0
    /\ prev = NoPrev
    /\ shown = <<>>
    /\ StoreIdle

\* A request for add_note(topic, text[, timestamp]) reaches a thread, which
\* runs line 32, timestamp = timestamp or utcnow().strftime(..), and comes
\* to the with statement.
CallAddNote(t, topic, text, stamp) ==
    /\ th[t].pc = "idle" /\ listening /\ ops < MaxOps
    /\ th' = [th EXCEPT ![t] = [Idle EXCEPT !.pc = "lock",
                !.op = "add_note", !.topic = topic, !.text = text,
                !.ts = IF stamp = <<>> THEN Strftime(now) ELSE stamp,
                !.late = faults > 0]]
    /\ ops' = ops + 1
    /\ UNCHANGED <<clientVars, files, now, LOCK, listening, added, faults,
                   ledger, stable>>

CallGetNotes(t, topic) ==
    /\ th[t].pc = "idle" /\ listening /\ ops < MaxOps
    /\ th' = [th EXCEPT ![t] = [Idle EXCEPT !.pc = "lock",
                !.op = "get_notes", !.topic = topic, !.late = faults > 0]]
    /\ ops' = ops + 1
    /\ UNCHANGED <<clientVars, files, now, LOCK, listening, added, faults,
                   ledger, stable>>

CallListTopics(t) ==
    /\ th[t].pc = "idle" /\ listening /\ ops < MaxOps
    /\ th' = [th EXCEPT ![t] = [Idle EXCEPT !.pc = "lock",
                !.op = "list_topics", !.late = faults > 0]]
    /\ ops' = ops + 1
    /\ UNCHANGED <<clientVars, files, now, LOCK, listening, added, faults,
                   ledger, stable>>

\* Loaded gone wrong: get_notes creates the topic it does not find and
\* writes the tree back.
LoadedCreates(r, tree) ==
    CASE r.op = "add_note" ->
            IF FindErr(r.topic)
            THEN [r EXCEPT !.pc = "raise", !.ret = FindFault(r.topic)]
            ELSE [r EXCEPT !.pc = "write",
                           !.tree = AddToTree(tree, r.topic, r.text, r.ts)]
      [] r.op = "get_notes" ->
            IF FindErr(r.topic)
            THEN [r EXCEPT !.pc = "raise", !.ret = FindFault(r.topic)]
            ELSE IF FindIdx(tree, r.topic) = 0
            THEN [r EXCEPT !.pc = "write",
                    !.tree = Append(tree, [name |-> r.topic, notes |-> <<>>])]
            ELSE [r EXCEPT !.pc = "unlock", !.ret = NotesOf(tree, r.topic)]
      [] OTHER -> [r EXCEPT !.pc = "unlock", !.ret = TopicNames(tree)]

\* What a thread does with the tree it parsed, up to its next access to the
\* file or the end of the with block: lines 36-57, 70-81, 101-102.
Loaded(r, tree) ==
    CASE r.op = "add_note" ->
            IF FindErr(r.topic)
            THEN [r EXCEPT !.pc = "raise", !.ret = FindFault(r.topic)]
            ELSE [r EXCEPT !.pc = "write",
                           !.tree = AddToTree(tree, r.topic, r.text, r.ts)]
      [] r.op = "get_notes" ->
            IF FindErr(r.topic)
            THEN [r EXCEPT !.pc = "raise", !.ret = FindFault(r.topic)]
            ELSE [r EXCEPT !.pc = "unlock", !.ret = NotesOf(tree, r.topic)]
      [] OTHER -> [r EXCEPT !.pc = "unlock", !.ret = TopicNames(tree)]

\* Locked gone wrong: the lock is taken without waiting for it.
LockedNoWait(t) == LOCK' = t

\* Locked gone wrong: only add_note takes the lock.
LockedWritersOnly(t) ==
    IF th[t].op = "add_note" THEN LOCK = 0 /\ LOCK' = t ELSE UNCHANGED LOCK

\* "with LOCK:" (lines 34, 68, 100): the lock is taken when it is free.
Locked(t) == LOCK = 0 /\ LOCK' = t

\* The with block is entered and _load_tree runs ET.parse(DB_PATH), line
\* 19: a missing file is created (line 23 opens it), a file without a
\* document raises ParseError.
Enter(t) ==
    /\ th[t].pc = "lock"
    /\ Locked(t)
    /\ CASE Store.k = "missing" ->
              /\ files' = [files EXCEPT ![DB_PATH] = Truncated]
              /\ th' = [th EXCEPT ![t].pc = "create"]
         [] Store.k = "partial" ->
              /\ th' = [th EXCEPT ![t].pc = "raise",
                                  ![t].ret = Fault("ParseError")]
              /\ UNCHANGED files
         [] OTHER ->
              /\ th' = [th EXCEPT ![t] = Loaded(@, ETParse(Store))]
              /\ UNCHANGED files
    /\ UNCHANGED <<clientVars, now, ops, listening, added, faults, ledger,
                   stable>>

\* _load_tree, lines 22-24: the empty root is written out and parsed.
Create(t) ==
    /\ th[t].pc = "create"
    /\ files' = [files EXCEPT ![DB_PATH] = EmptyDoc]
    /\ stable' = EmptyDoc
    /\ th' = [th EXCEPT ![t] = Loaded(@, ETParse(EmptyDoc))]
    /\ UNCHANGED <<clientVars, now, LOCK, ops, listening, added, faults,
                   ledger>>

\* Line 59, tree.write(DB_PATH): the file is opened for writing ...
WriteOpen(t) ==
    /\ th[t].pc = "write"
    /\ files' = [files EXCEPT ![DB_PATH] = Truncated]
    /\ th' = [th EXCEPT ![t].pc = "flush"]
    /\ UNCHANGED <<clientVars, now, LOCK, ops, listening, added, faults,
                   ledger, stable>>

\* ... and the document written to it.
WriteFlush(t) ==
    /\ th[t].pc = "flush"
    /\ files' = [files EXCEPT ![DB_PATH] = ETWrite(th[t].tree)]
    /\ stable' = ETWrite(th[t].tree)
    /\ ledger' = Append(ledger, [topic |-> th[t].topic, text |-> th[t].text,
                                 timestamp |-> th[t].ts])
    /\ th' = [th EXCEPT ![t].pc = "unlock", ![t].ret = PyBool(TRUE)]
    /\ UNCHANGED <<clientVars, now, LOCK, ops, listening, added, faults>>

\* Line 59 fails after the file was opened: the disk is full, or a value of
\* the tree cannot be serialised (a timestamp argument that is an int).
WriteFail(t) ==
    /\ th[t].pc = "flush"
    /\ th' = [th EXCEPT ![t].pc = "raise", ![t].ret = Fault("OSError")]
    /\ UNCHANGED <<clientVars, files, now, LOCK, ops, listening, added,
                   faults, ledger, stable>>

\* Unlocked gone wrong: an exception leaves the lock held.
UnlockedUnlessRaised(t) == LOCK' = IF th[t].pc = "raise" THEN LOCK ELSE 0

\* Leaving the with block, by its end or by an exception, releases LOCK.
Unlocked(t) == LOCK' = 0

\* serve_forever after a request whose function raised: the fault is sent
\* and the server goes on.
AfterFault == listening' = listening

\* The with block is left and the call ends: the function returns its
\* value (line 61: True), or the exception reaches the server, which
\* answers with a fault.
Leave(t) ==
    /\ th[t].pc \in {"unlock", "raise"}
    /\ Unlocked(t)
    /\ IF th[t].pc = "raise"
       THEN /\ faults' = faults + 1
            /\ AfterFault
            /\ UNCHANGED added
       ELSE /\ added' = IF th[t].op = "add_note" THEN added + 1 ELSE added
            /\ UNCHANGED <<faults, listening>>
    /\ th' = [th EXCEPT ![t] = Idle]
    /\ UNCHANGED <<clientVars, files, now, ops, ledger, stable>>

StoreNext ==
    \/ \E t \in Threads, in \in AddInputs : CallAddNote(t, in[1], in[2], in[3])
    \/ \E t \in Threads, topic \in Topics : CallGetNotes(t, topic)
    \/ \E t \in Threads : CallListTopics(t)
    \/ \E t \in Threads : Enter(t)
    \/ \E t \in Threads : Create(t)
    \/ \E t \in Threads : WriteOpen(t)
    \/ \E t \in Threads : WriteFlush(t)
    \/ \E t \in Threads : Leave(t)
    \/ Tick

StoreSpec == StoreInit /\ [][StoreNext]_vars

\* The same with writes that can fail.
FaultNext ==
    \/ StoreNext
    \/ \E t \in Threads : WriteFail(t)

FaultSpec == StoreInit /\ [][FaultNext]_vars

\* ------------------------------------------------------ dispatcher claims
\* perform_rpc has returned and the menu loop has not yet gone on.
Done == pc \in {"c1", "c2", "c2t", "c3", "c3a"}

\* The endpoints a call tries, in rotation order from where it started.
Rotation(i) == ports[((start + i - 2) % Len(ports)) + 1]

\* The failures a call reported, as the urls of its "Error contacting
\* server" lines.
RECURSIVE ErrorUrls(_)
ErrorUrls(p) ==
    IF p = <<>> THEN <<>>
    ELSE IF Head(p)[1] = "Error contacting server"
         THEN <<Head(p)[2]>> \o ErrorUrls(Tail(p))
         ELSE ErrorUrls(Tail(p))

\* What server u answers to the call, where it answers with a value.
AnswersOf(u) ==
    {r \in {Dispatch(call.method, call.args, files[PathOf(u)], now,
                     reply).ret : reply \in WikiReplies} : r.t # "Fault"}

\* In the finished call every attempt on a failed and every attempt on b
\* succeeded.
FailsSucceeds(a, b) ==
    /\ Done
    /\ Len(ports) = 2 /\ a # b
    /\ \A i \in 1..Len(log) : (log[i].url = a => ~log[i].ok)
                           /\ (log[i].url = b => log[i].ok)

ReturnedFrom(b) ==
    /\ Succeeded(log)
    /\ log[Len(log)].url = b
    /\ result \in AnswersOf(b)

\* C1 as stated: with a pool of two where A fails on every attempt and B
\* succeeds on every attempt, the call returns B's result and reports
\* exactly one failure, for A, wherever the rotation starts.
C1_ExactlyOneFailure ==
    \A a \in Urls, b \in Urls :
        FailsSucceeds(a, b) => ReturnedFrom(b) /\ ErrorUrls(printed) = <<a>>

\* C1 amended: the call returns B's result wherever the rotation starts; it
\* reports one failure, for A, when the rotation starts at A and no failure
\* when it starts at B.
C1_FailoverToB ==
    \A a \in Urls, b \in Urls :
        FailsSucceeds(a, b) =>
            /\ ReturnedFrom(b)
            /\ ErrorUrls(printed) = IF ports[start] = a THEN <<a>> ELSE <<>>

\* A call that started at A failed over to B, whose answer is not the one
\* A's store would give.
C1_Witness ==
    \E a \in Urls, b \in Urls :
        /\ FailsSucceeds(a, b)
        /\ ports[start] = a
        /\ ErrorUrls(printed) = <<a>>
        /\ call.method = "get_notes"
        /\ result \in AnswersOf(b) /\ result \notin AnswersOf(a)

\* C2: a call in which every endpoint failed made exactly N attempts, one
\* per endpoint in pool order from the cursor at its start, reported each
\* failure once in that order, then the overall failure, and returned None.
C2_Exhaustion ==
    (Done /\ ~Succeeded(log)) =>
        /\ tries = Len(ports)
        /\ Len(log) = Len(ports)
        /\ \A i \in 1..Len(log) : log[i].url = Rotation(i) /\ ~log[i].ok
        /\ printed = [i \in 1..(Len(ports) + 1) |->
                        IF i <= Len(ports)
                        THEN <<"Error contacting server", Rotation(i)>>
                        ELSE <<"All servers failed.">>]
        /\ PyEq(result, PyNone)

\* A request that faults on every replica exhausted a pool of two from the
\* second endpoint on.
C2_Witness ==
    /\ Done /\ ~Succeeded(log)
    /\ Len(ports) = 2 /\ start = 2
    /\ \A i \in 1..Len(log) : log[i].why = "fault"
    /\ printed = << <<"Error contacting server", ports[2]>>,
                    <<"Error contacting server", ports[1]>>,
                    <<"All servers failed.">> >>

\* C3: only the last attempt of a call can have succeeded; a call that
\* returned a result made no attempt after the first success, its attempts
\* are the endpoints in rotation order from the cursor, and what it returned
\* is the answer of the endpoint that succeeded.
C3_FirstSuccessReturns ==
    /\ \A i \in 1..(Len(log) - 1) : ~log[i].ok
    /\ (Done /\ Succeeded(log)) =>
        /\ tries = Len(log)
        /\ \A i \in 1..Len(log) : log[i].url = Rotation(i)
        /\ result \in AnswersOf(log[Len(log)].url)

\* The first endpoint answered and the call returned its answer although
\* the next endpoint would have answered otherwise.
C3_Witness ==
    /\ Done /\ Succeeded(log) /\ Len(log) = 1 /\ Len(ports) = 2
    /\ result \in AnswersOf(Rotation(1))
    /\ result \notin AnswersOf(Rotation(2))

\* This call and the one before it each succeeded at their first attempt:
\* they started at different endpoints iff the pool has more than one.
C4_StartsDiffer ==
    (prev.first /\ Len(log) = 1 /\ Succeeded(log)) =>
        (ports[start] # ports[prev.start] <=> Len(ports) > 1)

\* A step moves the cursor iff it makes an attempt, then by one position;
\* a call starts at the cursor as it is, and tries that endpoint first.
C4_Step ==
    /\ server_cycle' = IF tries' = tries + 1 THEN NextInCycle(server_cycle)
                       ELSE server_cycle
    /\ (tries' = 0 /\ pc' = "rpc") => start' = server_cycle
    /\ log' # <<>> => log'[1].url = ports[start']

\* C4: the cursor moves only when an attempt is made, then by one position
\* modulo the pool size, and is never reset; a call starts at the cursor the
\* call before it left; two consecutive calls whose first attempt succeeded
\* started from different endpoints iff the pool has more than one endpoint.
C4_CursorContinuity == [](C4_StartsDiffer) /\ [][C4_Step]_vars

\* Two one-attempt calls in a row, the second starting where the cycle
\* wrapped around.
C4_Witness ==
    /\ prev.first /\ Len(log) = 1 /\ Succeeded(log)
    /\ Len(ports) = 2 /\ prev.start = 2 /\ start = 1

\* A finished call returned None iff none of its attempts succeeded.
C5_SentinelDistinct == Done => (Succeeded(log) <=> ~PyEq(result, PyNone))

\* The menu's fetch prints "No notes found" only after a call that a
\* server answered.
C5_FetchStep ==
    (pc = "c2" /\ shown' = <<"No notes found">>) => Succeeded(log)

\* C5 as stated: a call in which all endpoints failed returns a value no
\* successful call returns, and the menu's fetch reports "no notes" only
\* for a call that a server answered.
C5_Distinguishable == [](C5_SentinelDistinct) /\ [][C5_FetchStep]_vars

\* C6 as stated: every perform_rpc call eventually returns.
C6_CallReturns == (pc = "rpc") ~> Done

\* ----------------------------------------------------------- store claims
Quiescent == \A t \in Threads : th[t].pc = "idle"

\* Inside the with block: between taking LOCK and releasing it.
Inside(t) == th[t].pc \in {"create", "write", "flush", "unlock", "raise"}

\* The <timestamp> and <text> character data of the notes a document holds
\* under the topic elements of that name, in document order.
FileNotes(file, topic) ==
    Flat([i \in 1..Len(file.root) |->
            IF file.root[i].name # topic THEN <<>>
            ELSE [j \in 1..Len(file.root[i].notes) |->
                    <<file.root[i].notes[j].timestamp,
                      file.root[i].notes[j].text>>]])

\* The same of all notes of the document.
AllNotes(file) ==
    Flat([i \in 1..Len(file.root) |->
            [j \in 1..Len(file.root[i].notes) |->
                <<file.root[i].notes[j].timestamp,
                  file.root[i].notes[j].text>>]])

\* The timestamp and text of the notes written, in the order of the writes.
LedgerData == [i \in 1..Len(ledger) |-> <<ledger[i].timestamp, ledger[i].text>>]

Times(x, q) == Cardinality({i \in 1..Len(q) : q[i] = x})
SameBag(q, r) ==
    /\ Len(q) = Len(r)
    /\ \A i \in 1..Len(q) : Times(q[i], q) = Times(q[i], r)

\* The notes written under a topic, in the order of their writes.
RECURSIVE Written(_, _)
Written(l, topic) ==
    IF l = <<>> THEN <<>>
    ELSE IF Head(l).topic = topic
         THEN <<Head(l)>> \o Written(Tail(l), topic)
         ELSE Written(Tail(l), topic)

\* The topics written to, in the order of their first write.
RECURSIVE FirstTopics(_, _)
FirstTopics(l, seen) ==
    IF l = <<>> THEN <<>>
    ELSE IF Head(l).topic \in seen THEN FirstTopics(Tail(l), seen)
         ELSE <<Head(l).topic>> \o
              FirstTopics(Tail(l), seen \cup {Head(l).topic})

C9_RoundTrip ==
    (LOCK = 0 /\ Store.k = "xml") =>
        /\ TopicNames(LoadTree(Store)) =
            PyList([i \in 1..Len(FirstTopics(ledger, {})) |->
                        PyStr(FirstTopics(ledger, {})[i])])
        /\ \A topic \in {x \in Topics : ~HasQuote(x)} :
            NotesOf(LoadTree(Store), topic) =
                PyList([j \in 1..Len(Written(ledger, topic)) |->
                    <<PyStr(Written(ledger, topic)[j].timestamp),
                      PyStr(Written(ledger, topic)[j].text)>>])

\* C10: the server goes on serving after a call whose function raised, and
\* LOCK is held only by a thread inside its with block: once a call has
\* ended, by a value or by a fault, the lock is free for the next.
C10_FaultsContained ==
    /\ listening
    /\ LOCK # 0 => Inside(LOCK)
    /\ \A t \in Threads : Inside(t) => LOCK = t

\* After a call that raised, a later add_note has written its note.
C10_Witness ==
    \E t \in Threads :
        /\ faults > 0 /\ th[t].late
        /\ th[t].pc = "unlock" /\ th[t].op = "add_note"

\* --------------------------------------------------- collaborator failure
\* C11 as stated: no attempt of a wiki_lookup call ends in a fault, whatever
\* the reference service does, so the call makes one attempt on a server
\* that answers and never fails over because of the service.
C11_WikiNeverFaults ==
    call.method = "wiki_lookup" =>
        \A i \in 1..Len(log) : log[i].why # "fault"

\* ------------------------------------------------------ one store a server
\* What the server on port v answers to get_notes of each topic that can be
\* looked up, and to list_topics.
ReadsOf(fs, v) ==
    [notes |-> [topic \in {x \in Topics : ~HasQuote(x)} |->
                    get_notes(fs[PathOf(v)], topic).ret],
     topics |-> list_topics(fs[PathOf(v)]).ret]

\* The step is an add_note that the server on port u ran and answered.
AddServedBy(u) ==
    /\ pc = "rpc" /\ call.method = "add_note"
    /\ log' = Append(log, Attempted(u, TRUE, "result"))

\* C12 as stated: an add_note served by one server leaves what every other
\* server answers to get_notes and list_topics as it was.
C12_OwnStore ==
    [][\A u \in Urls, v \in Urls :
        (u # v /\ AddServedBy(u)) => ReadsOf(files', v) = ReadsOf(files, v)]_vars

\* ------------------------------------------------------- store I/O failure
\* C13 as stated: when the write of an add_note has failed, the file holds
\* the last document written out completely or the document with the new
\* note, and whenever no write is under way the file is missing or holds a
\* complete document.
C13_AtomicPersist ==
    /\ \A t \in Threads :
        (th[t].pc = "raise" /\ th[t].ret = Fault("OSError")) =>
            Store \in {stable, ETWrite(th[t].tree)}
    /\ (\A t \in Threads : th[t].pc \notin {"create", "flush"}) =>
            Store # Truncated

\* ------------------------------------------------------------ store reads
\* C14 as stated: get_notes of a topic that no add_note has written to
\* ends with the empty list, not with a fault and not with notes.
C14_UnknownTopicEmpty ==
    \A t \in Threads :
        (/\ th[t].op = "get_notes"
         /\ th[t].pc \in {"unlock", "raise"}
         /\ Written(ledger, th[t].topic) = <<>>) => th[t].ret = PyList(<<>>)

\* The topics and notes a file holds; none while it is missing or being
\* created.
Content(file) == IF file.k = "xml" THEN file.root ELSE <<>>

\* Thread t takes a step of a get_notes or a list_topics.
ReaderStep(t) ==
    /\ th'[t] # th[t]
    /\ {th[t].op, th'[t].op} \cap {"get_notes", "list_topics"} # {}

\* C15: a step of get_notes or list_topics leaves the topics and notes of
\* the store as they are; it changes the file only in creating a missing
\* one as an empty document (opening it, then writing the empty root).
C15_ReadsKeepStore ==
    [][\A t \in Threads : ReaderStep(t) =>
        /\ Content(Store') = Content(Store)
        /\ Store' # Store =>
            \/ Store = Missing /\ Store' = Truncated
            \/ th[t].pc = "create" /\ Store' = EmptyDoc]_vars

\* list_topics has answered with the two topics of the store, which is as
\* the last write left it.
C15_Witness ==
    \E t \in Threads :
        /\ th[t].op = "list_topics" /\ th[t].pc = "unlock"
        /\ Len(th[t].ret.v) = 2
        /\ Store = stable /\ Len(Content(Store)) = 2

\* ----------------------------------------------------- topics of the store
\* C16 as stated: no two topic elements of the store carry the same name,
\* and list_topics gives the names add_note was called with and returned
\* True for, each once, in the order of their first note.
C16_UniqueTopics ==
    Store.k = "xml" =>
        /\ \A i \in 1..Len(Store.root), j \in 1..Len(Store.root) :
                Store.root[i].name = Store.root[j].name => i = j
        /\ list_topics(Store).ret =
                PyList([i \in 1..Len(FirstTopics(ledger, {})) |->
                            PyStr(FirstTopics(ledger, {})[i])])

IsPrefix(q, r) == Len(q) <= Len(r) /\ SubSeq(r, 1, Len(q)) = q

\* From one complete document to the next every topic keeps its notes as
\* a prefix of what it has afterwards.
KeepsNotes ==
    \A topic \in Topics :
        IsPrefix(FileNotes(stable, topic), FileNotes(stable', topic))

\* The step writes the note of an add_note(topic, text): that topic gets
\* this one note at its end, every other topic stays as it is.
AddsOneNote ==
    \A t \in Threads :
        (th[t].pc = "flush" /\ ledger' # ledger) =>
            \A topic \in Topics :
                FileNotes(stable', topic) =
                    IF topic = th[t].topic
                    THEN Append(FileNotes(stable, topic),
                                <<th[t].ts, th[t].text>>)
                    ELSE FileNotes(stable, topic)

\* C17 as stated: the store is append-only by topic, and one add_note
\* extends exactly the topic it names by exactly its note.
C17_AppendOnly ==
    [][(stable.k = "xml" /\ stable' # stable) =>
            KeepsNotes /\ AddsOneNote]_vars

\* ------------------------------------------------------ failover of writes
\* The step is an attempt of an add_note call that the dispatcher counts
\* as failed.
FailedAddAttempt ==
    /\ pc = "rpc" /\ call.method = "add_note"
    /\ Len(log') = Len(log) + 1
    /\ ~log'[Len(log')].ok

\* C18 as stated: an attempt of add_note that is counted as failed leaves
\* the notes of every store as they were, so that only the one attempt that
\* succeeds, if any, stores the note.
C18_FailedStoresNothing ==
    [][FailedAddAttempt =>
        \A d \in DOMAIN files : NoteCount(files'[d]) = NoteCount(files[d])]_vars

\* ------------------------------------------------------------- timestamps
\* The clock reading an automatic timestamp was made from; -1 for a
\* timestamp that a caller gave.
ClockOf(ts) ==
    IF \E n \in 0..MaxClock : Strftime(n) = ts
    THEN CHOOSE n \in 0..MaxClock : Strftime(n) = ts
    ELSE -1

=============================================================================
